---- MODULE Spec2Model ----
(***************************************************************************)
(* A model of os_client_config.cloud_config.CloudConfig: the per-service   *)
(* key resolution, the TLS/credential materialization, the lazily created  *)
(* keystone session and the legacy client bridge.                          *)
(*                                                                         *)
(* Python str values are sequences of one-character strings, so that       *)
(* startswith / endswith / replace / split / join / format are computed    *)
(* character by character.  A Python value is a tagged tuple               *)
(* <<tag, payload>>; None is <<"None">>.                                   *)
(***************************************************************************)
EXTENDS Integers, Sequences, FiniteSets, TLC

VARIABLES config, region, auth, openstack_config, keystone_session,
          sessions, ret, pc, local

vars == <<config, region, auth, openstack_config, keystone_session,
          sessions, ret, pc, local>>

(***************************************************************************)
(* Bounds of the model.                                                    *)
(***************************************************************************)
MaxKeys == 4
MaxSessions == 2
NumThreads == 2

(***************************************************************************)
(* String literals of the source.                                          *)
(***************************************************************************)
S_empty == <<>>
S_os_ == <<"o", "s", "_">>
S_dash == "-"
S_us == "_"
S_verify == <<"v", "e", "r", "i", "f", "y">>
S_cacert == <<"c", "a", "c", "e", "r", "t">>
S_cert == <<"c", "e", "r", "t">>
S_key == <<"k", "e", "y">>
S_api_timeout == <<"a", "p", "i", "_", "t", "i", "m", "e", "o", "u", "t">>
S_interface == <<"i", "n", "t", "e", "r", "f", "a", "c", "e">>
S_api_version == <<"a", "p", "i", "_", "v", "e", "r", "s", "i", "o", "n">>
S_service_type == <<"s", "e", "r", "v", "i", "c", "e", "_", "t", "y", "p", "e">>
S_service_name == <<"s", "e", "r", "v", "i", "c", "e", "_", "n", "a", "m", "e">>
S__interface == <<"_", "i", "n", "t", "e", "r", "f", "a", "c", "e">>
S__region_name == <<"_", "r", "e", "g", "i", "o", "n", "_", "n", "a", "m", "e">>
S__api_version == <<"_", "a", "p", "i", "_", "v", "e", "r", "s", "i", "o", "n">>
S__service_type == <<"_", "s", "e", "r", "v", "i", "c", "e", "_", "t", "y", "p", "e">>
S__service_name == <<"_", "s", "e", "r", "v", "i", "c", "e", "_", "n", "a", "m", "e">>
S__endpoint == <<"_", "e", "n", "d", "p", "o", "i", "n", "t">>
S_None == <<"N", "o", "n", "e">>
S_identity == <<"i", "d", "e", "n", "t", "i", "t", "y">>
S_image == <<"i", "m", "a", "g", "e">>
S_network == <<"n", "e", "t", "w", "o", "r", "k">>
S_object_store == <<"o", "b", "j", "e", "c", "t", "-", "s", "t", "o", "r", "e">>
S_endpoint == <<"e", "n", "d", "p", "o", "i", "n", "t">>
S_endpoint_type == <<"e", "n", "d", "p", "o", "i", "n", "t", "_", "t", "y", "p", "e">>
S_2 == <<"2">>
S_2_0 == <<"2", ".", "0">>

(***************************************************************************)
(* Python values and their truth value.                                    *)
(***************************************************************************)
None == <<"None">>
PyStr(s) == <<"str", s>>
PyBool(b) == <<"bool", IF b THEN <<"T">> ELSE <<"F">> >>
PyInt(digits) == <<"int", digits>>
PyFloat(digits) == <<"float", digits>>
PyTuple(a, b) == <<"tuple", a, b>>
PySet(S) == <<"set", S>>

Tag(v) == v[1]

\* bool(v): None, False, '', 0, 0.0 and the empty set are false.
Truthy(v) ==
    CASE Tag(v) = "None" -> FALSE
      [] Tag(v) = "bool" -> v[2] = <<"T">>
      [] Tag(v) = "str" -> Len(v[2]) > 0
      [] Tag(v) \in {"int", "float"} -> \E i \in 1..Len(v[2]) : v[2][i] # "0"
      [] Tag(v) = "set" -> v[2] # {}
      [] OTHER -> TRUE

(***************************************************************************)
(* str methods.                                                            *)
(***************************************************************************)
StartsWith(s, p) == Len(s) >= Len(p) /\ SubSeq(s, 1, Len(p)) = p

EndsWith(s, p) == Len(s) >= Len(p) /\ SubSeq(s, Len(s) - Len(p) + 1, Len(s)) = p

\* s.replace(a, b) for one-character a and b.
Replace(s, a, b) == [i \in 1..Len(s) |-> IF s[i] = a THEN b ELSE s[i]]

\* s.split(sep) for a one-character sep: a sequence of Len-many-seps + 1 pieces.
RECURSIVE Split(_, _)
Split(s, sep) ==
    IF \A i \in 1..Len(s) : s[i] # sep
    THEN <<s>>
    ELSE LET i == CHOOSE j \in 1..Len(s) :
                      s[j] = sep /\ \A k \in 1..(j - 1) : s[k] # sep
         IN  <<SubSeq(s, 1, i - 1)>> \o Split(SubSeq(s, i + 1, Len(s)), sep)

\* sep.join(parts) for a one-character sep.
RECURSIVE Join(_, _)
Join(parts, sep) ==
    IF Len(parts) = 0 THEN <<>>
    ELSE IF Len(parts) = 1 THEN parts[1]
    ELSE parts[1] \o <<sep>> \o Join(Tail(parts), sep)

\* parts[:-2]
DropLast2(parts) == SubSeq(parts, 1, Len(parts) - 2)

\* '{service_type}<suffix>'.format(service_type=service_type)
Format(service_type, suffix) ==
    (IF service_type = None THEN S_None ELSE service_type[2]) \o suffix

(***************************************************************************)
(* Outcomes of a call.                                                     *)
(***************************************************************************)
Return(v) == [kind |-> "return", value |-> v, exc |-> "", warned |-> FALSE]
Raise(e) == [kind |-> "raise", value |-> None, exc |-> e, warned |-> FALSE]
Warned(r) == [r EXCEPT !.warned = TRUE]

\* dict.get(key, default)
DictGet(d, key, default) == IF key \in DOMAIN d THEN d[key] ELSE default

(***************************************************************************)
(* CloudConfig.__getattr__                                                 *)
(***************************************************************************)
GetAttr(c, key0) ==
    LET key == IF StartsWith(key0, S_os_) THEN SubSeq(key0, 4, Len(key0)) ELSE key0
    IN  IF key \in {Replace(attr, S_dash, S_us) : attr \in DOMAIN c}
        THEN IF key \in DOMAIN c THEN Return(c[key]) ELSE Raise("KeyError")
        ELSE Return(None)

(***************************************************************************)
(* CloudConfig.get_requests_verify_args                                    *)
(***************************************************************************)
\* lines 61-69: the effective verify value, and whether the warning is emitted
VerifyPart(c) ==
    IF S_verify \notin DOMAIN c THEN Raise("KeyError")
    ELSE IF Truthy(c[S_verify])
    THEN IF S_cacert \notin DOMAIN c THEN Raise("KeyError")
         ELSE IF Truthy(c[S_cacert]) THEN Return(c[S_cacert])
         ELSE Return(c[S_verify])
    ELSE IF S_cacert \notin DOMAIN c THEN Raise("KeyError")
         ELSE IF Truthy(c[S_cacert]) THEN Warned(Return(c[S_verify]))
         ELSE Return(c[S_verify])

\* lines 71-74: the client certificate, alone or paired with the key
CertPart(c) ==
    LET cert == DictGet(c, S_cert, None)
    IN  IF Truthy(cert)
        THEN IF S_key \notin DOMAIN c THEN Raise("KeyError")
             ELSE IF Truthy(c[S_key]) THEN Return(PyTuple(cert, c[S_key]))
             ELSE Return(cert)
        ELSE Return(cert)

get_requests_verify_args(c) ==
    LET v == VerifyPart(c)
    IN  IF v.kind = "raise" THEN v
        ELSE LET k == CertPart(c)
             IN  IF k.kind = "raise" THEN [k EXCEPT !.warned = v.warned]
                 ELSE [Return(PyTuple(v.value, k.value)) EXCEPT !.warned = v.warned]

(***************************************************************************)
(* CloudConfig.get_services                                                *)
(***************************************************************************)
IsServiceKey(key) ==
    \/ EndsWith(key, S_api_version)
    \/ EndsWith(key, S_service_type)
    \/ EndsWith(key, S_service_name)

ServiceOfKey(key) == Join(DropLast2(Split(key, S_us)), S_us)

get_services(c) ==
    Return(PySet({ServiceOfKey(key) : key \in {k \in DOMAIN c : IsServiceKey(k)}}))

(***************************************************************************)
(* Per-service key resolution.                                             *)
(***************************************************************************)
\* a wrong precedence: the cloud-wide interface shadows the per-service one
get_interface_cloud_first(c, service_type) ==
    LET key == Format(service_type, S__interface)
    IN  IF ~Truthy(service_type) THEN Return(DictGet(c, S_interface, None))
        ELSE Return(DictGet(c, S_interface, DictGet(c, key, None)))

get_interface(c, service_type) ==
    LET interface == DictGet(c, S_interface, None)
    IN  IF ~Truthy(service_type) THEN Return(interface)
        ELSE Return(DictGet(c, Format(service_type, S__interface), interface))

get_region_name(c, rgn, service_type) ==
    IF ~Truthy(service_type) THEN Return(rgn)
    ELSE Return(DictGet(c, Format(service_type, S__region_name), rgn))

get_api_version(c, service_type) ==
    Return(DictGet(c, Format(service_type, S__api_version), None))

get_service_type(c, service_type) ==
    Return(DictGet(c, Format(service_type, S__service_type), service_type))

get_service_name(c, service_type) ==
    Return(DictGet(c, Format(service_type, S__service_name), None))

get_endpoint(c, service_type) ==
    Return(DictGet(c, Format(service_type, S__endpoint), None))

(***************************************************************************)
(* CloudConfig.get_cache_resource_expiration                               *)
(***************************************************************************)
IsDigits(s) == Len(s) > 0 /\ \A i \in 1..Len(s) : s[i] \in {"0", "1", "2", "3", "4", "5"}

\* the digits of a number without its leading zeros
RECURSIVE Canon(_)
Canon(s) == IF Len(s) > 1 /\ s[1] = "0" THEN Canon(Tail(s)) ELSE s

\* float(v) on the values an expiration mapping holds (whole numbers only)
ToFloat(v) ==
    CASE Tag(v) = "int" -> Return(PyFloat(Canon(v[2])))
      [] Tag(v) = "float" -> Return(v)
      [] Tag(v) = "bool" -> Return(PyFloat(IF Truthy(v) THEN <<"1">> ELSE <<"0">>))
      [] Tag(v) = "str" -> IF IsDigits(v[2]) THEN Return(PyFloat(Canon(v[2])))
                           ELSE Raise("ValueError")
      [] OTHER -> Raise("TypeError")

\* An OpenStackConfig, reduced to what get_cache_expiration() returns.
OpenStackConfig(expiration) == <<"OpenStackConfig", expiration>>
get_cache_expiration(oc) == oc[2]

get_cache_resource_expiration(oc, resource, default) ==
    IF Truthy(oc)
    THEN LET expiration == get_cache_expiration(oc)
         IN  IF resource \notin DOMAIN expiration THEN Return(default)
             ELSE ToFloat(expiration[resource])
    ELSE Return(None)

(***************************************************************************)
(* The configurations, services and attribute names the model runs on.     *)
(***************************************************************************)
S_compute == <<"c", "o", "m", "p", "u", "t", "e">>
S_compute_interface == <<"c", "o", "m", "p", "u", "t", "e", "_", "i", "n", "t", "e", "r", "f", "a", "c", "e">>
S_compute_region_name == <<"c", "o", "m", "p", "u", "t", "e", "_", "r", "e", "g", "i", "o", "n", "_", "n", "a", "m", "e">>
S_compute_service_type == <<"c", "o", "m", "p", "u", "t", "e", "_", "s", "e", "r", "v", "i", "c", "e", "_", "t", "y", "p", "e">>
S_compute_api_version == <<"c", "o", "m", "p", "u", "t", "e", "_", "a", "p", "i", "_", "v", "e", "r", "s", "i", "o", "n">>
S_compute_service_name == <<"c", "o", "m", "p", "u", "t", "e", "_", "s", "e", "r", "v", "i", "c", "e", "_", "n", "a", "m", "e">>
S_network_service_type == <<"n", "e", "t", "w", "o", "r", "k", "_", "s", "e", "r", "v", "i", "c", "e", "_", "t", "y", "p", "e">>
S_network_api_version == <<"n", "e", "t", "w", "o", "r", "k", "_", "a", "p", "i", "_", "v", "e", "r", "s", "i", "o", "n">>
S_block_storage_api_version == <<"b", "l", "o", "c", "k", "_", "s", "t", "o", "r", "a", "g", "e", "_", "a", "p", "i", "_", "v", "e", "r", "s", "i", "o", "n">>
S_other_key == <<"o", "t", "h", "e", "r", "_", "k", "e", "y">>
S_a == <<"a">>
S_a_dash_b == <<"a", "-", "b">>
S_a_b == <<"a", "_", "b">>
S_os_c == <<"o", "s", "_", "c">>
S_c == <<"c">>
S_os_a == <<"o", "s", "_", "a">>
S_os_a_b == <<"o", "s", "_", "a", "_", "b">>
S_zz == <<"z", "z">>
S_ca_pem == <<"/", "c", "a", ".", "p", "e", "m">>
S_crt == <<"/", "c", "r", "t">>
S_pem == <<"/", "p", "e", "m">>
S_public == <<"p", "u", "b", "l", "i", "c">>
S_R == <<"R">>
S_server == <<"s", "e", "r", "v", "e", "r">>
S_port == <<"p", "o", "r", "t">>

\* every dict with at most MaxKeys keys out of K and values out of V
ConfigsOver(K, V) ==
    UNION {[D -> V] : D \in {D \in SUBSET K : Cardinality(D) <= MaxKeys}}

EmptyDict == [k \in {} |-> None]

VerifyKeys == {S_verify, S_cacert, S_cert, S_key}
VerifyValues == {None, PyBool(TRUE), PyBool(FALSE), PyStr(S_empty), PyStr(S_ca_pem)}

InterfaceKeys == {S_interface, S_compute_interface, S__interface,
                  S_compute_region_name, S__region_name,
                  S_compute_service_type, S__service_type}
ServicesKeys == {S_compute_api_version, S_compute_service_name,
                 S_network_service_type, S_block_storage_api_version,
                 S_api_version, S_other_key}
AttrKeys == {S_a, S_a_dash_b, S_a_b, S_os_c, S_c}
PlainValues == {None, PyStr(S_public)}

\* the keys asked of __getattr__
AttrNames == {S_a, S_a_b, S_a_dash_b, S_os_a, S_os_a_b, S_os_c, S_c, S_zz}

\* the service_type arguments: the default None, '', and two services
ServiceArgs == {None, PyStr(S_empty), PyStr(S_compute), PyStr(S_network)}

TheRegion == PyStr(S_R)

\* resources, expiration mappings and caller defaults
Resources == {S_server, S_port}
ExpirationValues == {PyInt(<<"5">>), PyStr(<<"0", "3">>), PyFloat(<<"2">>)}
Expirations == UNION {[D -> ExpirationValues] : D \in SUBSET {S_server}}
Defaults == {None, PyInt(<<"1">>)}

Threads == 1..NumThreads

NoCall == [op |-> "", args |-> <<>>, out |-> Return(None)]
Call(op, args, out) == [op |-> op, args |-> args, out |-> out]

(***************************************************************************)
(* Spec: the resolution methods, each applied to a constructed CloudConfig.*)
(***************************************************************************)
\* CloudConfig.__init__: no session yet
Constructed ==
    /\ keystone_session = None
    /\ sessions = 0
    /\ ret = NoCall
    /\ pc = [t \in Threads |-> "idle"]
    /\ local = [t \in Threads |-> None]

Init ==
    /\ Constructed
    /\ region = TheRegion
    /\ auth = None
    /\ \/ /\ config \in ConfigsOver(VerifyKeys, VerifyValues)
          /\ openstack_config = None
       \/ /\ config \in ConfigsOver(InterfaceKeys, PlainValues)
                         \cup ConfigsOver(ServicesKeys, PlainValues)
                         \cup ConfigsOver(AttrKeys, PlainValues)
          /\ openstack_config = None
       \/ /\ config = EmptyDict
          /\ openstack_config \in {None} \cup {OpenStackConfig(e) : e \in Expirations}

Pure(op, args, out) ==
    /\ ret' = Call(op, args, out)
    /\ UNCHANGED <<config, region, auth, openstack_config, keystone_session,
                   sessions, pc, local>>

Do_getattr ==
    \E key \in AttrNames : Pure("__getattr__", <<PyStr(key)>>, GetAttr(config, key))

Do_get_requests_verify_args ==
    Pure("get_requests_verify_args", <<>>, get_requests_verify_args(config))

Do_get_services == Pure("get_services", <<>>, get_services(config))

Do_get_interface ==
    \E s \in ServiceArgs : Pure("get_interface", <<s>>, get_interface(config, s))

Do_get_region_name ==
    \E s \in ServiceArgs :
        Pure("get_region_name", <<s>>, get_region_name(config, region, s))

Do_get_service_type ==
    \E s \in ServiceArgs \ {None} :
        Pure("get_service_type", <<s>>, get_service_type(config, s))

Do_get_api_version ==
    \E s \in ServiceArgs \ {None} :
        Pure("get_api_version", <<s>>, get_api_version(config, s))

Do_get_cache_resource_expiration ==
    \E r \in Resources, d \in Defaults :
        Pure("get_cache_resource_expiration", <<PyStr(r), d>>,
             get_cache_resource_expiration(openstack_config, r, d))

Next ==
    \/ Do_getattr
    \/ Do_get_requests_verify_args
    \/ Do_get_services
    \/ Do_get_interface
    \/ Do_get_region_name
    \/ Do_get_service_type
    \/ Do_get_api_version
    \/ Do_get_cache_resource_expiration

Spec == Init /\ [][Next]_vars

(***************************************************************************)
(* Properties of the resolution methods, under Spec.                       *)
(***************************************************************************)
Has(k) == k \in DOMAIN config
IsCall(op) == ret.op = op
Arg1 == ret.args[1]
NonEmptyStr(v) == Tag(v) = "str" /\ v[2] # <<>>

CloudInterface == IF Has(S_interface) THEN config[S_interface] ELSE None

\* what the three accessors are to return for a service named by the string s
ExpectInterface(s) ==
    IF Has(s \o S__interface) THEN config[s \o S__interface] ELSE CloudInterface
ExpectRegionName(s) ==
    IF Has(s \o S__region_name) THEN config[s \o S__region_name] ELSE region
ExpectServiceType(s) ==
    IF Has(s \o S__service_type) THEN config[s \o S__service_type] ELSE PyStr(s)

\* C4 (as stated): for every config c and every service s, get_interface(s) is
\* c[s+"_interface"] if present, else c["interface"], else absent;
\* get_region_name(s) is c[s+"_region_name"] if present, else the region;
\* get_service_type(s) is c[s+"_service_type"] if present, else s.
C4_AsStated ==
    /\ (IsCall("get_interface") /\ Tag(Arg1) = "str")
          => ret.out = Return(ExpectInterface(Arg1[2]))
    /\ (IsCall("get_region_name") /\ Tag(Arg1) = "str")
          => ret.out = Return(ExpectRegionName(Arg1[2]))
    /\ (IsCall("get_service_type") /\ Tag(Arg1) = "str")
          => ret.out = Return(ExpectServiceType(Arg1[2]))

\* C4 (amended): the same for every non-empty service s; for the empty service
\* (and for no service) get_interface returns c["interface"] or absent and
\* get_region_name returns the region, whatever "_interface" and
\* "_region_name" hold; get_service_type is as stated for every s.
C4_PerServiceFallback ==
    /\ IsCall("get_interface")
          => ret.out = Return(IF NonEmptyStr(Arg1) THEN ExpectInterface(Arg1[2])
                              ELSE CloudInterface)
    /\ IsCall("get_region_name")
          => ret.out = Return(IF NonEmptyStr(Arg1) THEN ExpectRegionName(Arg1[2])
                              ELSE region)
    /\ IsCall("get_service_type")
          => ret.out = Return(ExpectServiceType(Arg1[2]))

\* a per-service interface that differs from the cloud-wide one was resolved
C4_Witness ==
    /\ IsCall("get_interface")
    /\ Arg1 = PyStr(S_compute)
    /\ Has(S_compute_interface) /\ Has(S_interface)
    /\ config[S_compute_interface] # config[S_interface]
    /\ ret.out = Return(config[S_compute_interface])

CacertConfigured == Has(S_cacert) /\ Truthy(config[S_cacert])
VerifyFlag == IF Has(S_verify) THEN config[S_verify] ELSE PyBool(TRUE)
\* the call got past the verify part and failed on the client certificate
FailedOnKey == Has(S_verify) /\ Has(S_cacert) /\ ret.out.kind = "raise"

\* C5: the effective verify value is the cacert when the verify flag (true
\* when not configured) is truthy and a cacert is configured, else the raw
\* verify flag; the warning is emitted exactly when, in that second case, a
\* cacert is configured; the call does not raise.
C5_VerifyValue ==
    (IsCall("get_requests_verify_args") /\ ~FailedOnKey)
       => /\ ret.out.kind = "return"
          /\ ret.out.value[2] = (IF Truthy(VerifyFlag) /\ CacertConfigured
                                 THEN config[S_cacert] ELSE VerifyFlag)
          /\ ret.out.warned = (~Truthy(VerifyFlag) /\ CacertConfigured)

\* C6: __getattr__ never raises; with a leading 'os_' stripped, it returns the
\* value stored under a key whose dash-to-underscore form is the requested
\* key, when there is one, and None otherwise.
Requested == IF StartsWith(Arg1[2], S_os_) THEN SubSeq(Arg1[2], 4, Len(Arg1[2]))
             ELSE Arg1[2]
StoredAs(key) == {k \in DOMAIN config : Replace(k, S_dash, S_us) = key}
C6_GetattrNeverRaises ==
    IsCall("__getattr__")
       => /\ ret.out.kind = "return"
          /\ IF StoredAs(Requested) # {}
             THEN ret.out.value \in {config[k] : k \in StoredAs(Requested)}
             ELSE ret.out.value = None

\* C7: get_cache_resource_expiration(resource, default) is the float of the
\* resource's entry when an OpenStackConfig is bound and holds the resource,
\* and the caller's default otherwise (resource missing, or nothing bound).
C7_ExpirationOrDefault ==
    IsCall("get_cache_resource_expiration")
       => IF openstack_config # None /\ Arg1[2] \in DOMAIN openstack_config[2]
          THEN ret.out = ToFloat(openstack_config[2][Arg1[2]])
          ELSE ret.out = Return(ret.args[2])

\* C8: get_services is exactly the set of service identifiers of the keys that
\* end in '_api_version', '_service_type' or '_service_name' (the key without
\* its last two '_'-separated tokens); no other key contributes one.
HasServiceSuffix(k) ==
    \/ EndsWith(k, S__api_version)
    \/ EndsWith(k, S__service_type)
    \/ EndsWith(k, S__service_name)
WithoutSuffix(k) ==
    CHOOSE s \in {SubSeq(k, 1, n) : n \in 0..Len(k)} :
        k \in {s \o S__api_version, s \o S__service_type, s \o S__service_name}
C8_ServicesOfSuffixedKeys ==
    IsCall("get_services")
       => ret.out = Return(PySet({WithoutSuffix(k) :
                                    k \in {k \in DOMAIN config : HasServiceSuffix(k)}}))

\* C9: the client certificate is (cert, key) when both are configured, the
\* cert alone when a cert is configured and no key is (absent or empty), and
\* absent when no cert is configured; none of these cases raises.
CertConfigured == Has(S_cert) /\ Truthy(config[S_cert])
KeyConfigured == Has(S_key) /\ Truthy(config[S_key])
C9_ClientCert ==
    (IsCall("get_requests_verify_args") /\ Has(S_verify) /\ Has(S_cacert))
       => /\ ret.out.kind = "return"
          /\ ret.out.value[3] =
                (IF CertConfigured /\ KeyConfigured
                 THEN PyTuple(config[S_cert], config[S_key])
                 ELSE IF CertConfigured THEN config[S_cert]
                 ELSE IF Has(S_cert) THEN config[S_cert] ELSE None)

(***************************************************************************)
(* The keystone session and the calls that acquire it.  Each is a function *)
(* of the instance's fields and yields the outcome of the call with the    *)
(* new value of _keystone_session (ks) and the number of Sessions          *)
(* constructed so far (n).                                                 *)
(***************************************************************************)
S_url == <<"u">>
S_url_v2 == <<"u", "/", "v", "2">>
S_slash_v2 == <<"/", "v", "2">>
S_compute_endpoint == <<"c", "o", "m", "p", "u", "t", "e", "_", "e", "n", "d", "p", "o", "i", "n", "t">>
S_session == <<"s", "e", "s", "s", "i", "o", "n">>
S_region_name == <<"r", "e", "g", "i", "o", "n", "_", "n", "a", "m", "e">>
S_token == <<"t", "o", "k">>

TheAuth == <<"Auth">>

\* session.Session(auth=, verify=, cert=, timeout=): the id is its identity
Session(id, a, verify, cert, timeout) == <<"Session", id, a, verify, cert, timeout>>

Step(out, ks, n) == [out |-> out, ks |-> ks, n |-> n]
Failed(r) == r.out.kind = "raise"
\* the outcome o of a call that went on after the call r
After(r, o) == [o EXCEPT !.warned = o.warned \/ r.out.warned]

\* a faulty get_session: it builds a Session on every call
get_session_always_builds(c, a, ks, n) ==
    IF ~Truthy(a)
    THEN Step(Raise("OpenStackConfigException"), ks, n)
    ELSE LET va == get_requests_verify_args(c)
         IN  IF va.kind = "raise" \/ S_api_timeout \notin DOMAIN c
             THEN Step(Raise("KeyError"), ks, n)
             ELSE LET s == Session(n + 1, a, va.value[2], va.value[3], c[S_api_timeout])
                  IN  Step(Return(s), s, n + 1)

\* a faulty get_session: a failed call leaves a half-built session behind
get_session_sticky_failure(c, a, ks, n) ==
    IF ks = None
    THEN IF ~Truthy(a)
         THEN Step(Raise("OpenStackConfigException"),
                   Session(0, a, None, None, None), n)
         ELSE LET va == get_requests_verify_args(c)
              IN  IF va.kind = "raise" \/ S_api_timeout \notin DOMAIN c
                  THEN Step(Raise("KeyError"), ks, n)
                  ELSE LET s == Session(n + 1, a, va.value[2], va.value[3],
                                        c[S_api_timeout])
                       IN  Step(Return(s), s, n + 1)
    ELSE Step(Return(ks), ks, n)

get_session(c, a, ks, n) ==
    IF ks = None
    THEN IF ~Truthy(a)
         THEN Step(Raise("OpenStackConfigException"), ks, n)
         ELSE LET va == get_requests_verify_args(c)
              IN  IF va.kind = "raise" THEN Step(va, ks, n)
                  ELSE IF S_api_timeout \notin DOMAIN c
                  THEN Step([Raise("KeyError") EXCEPT !.warned = va.warned], ks, n)
                  ELSE LET s == Session(n + 1, a, va.value[2], va.value[3],
                                        c[S_api_timeout])
                       IN  Step([Return(s) EXCEPT !.warned = va.warned], s, n + 1)
    ELSE Step(Return(ks), ks, n)

\* the one element of a singleton set; The({f(x) : x \in {v}}) is f(v) with
\* v evaluated once
The(S) == CHOOSE x \in S : TRUE

\* cat is the catalog's answer to session.get_endpoint: cat.auth for the
\* AUTH_INTERFACE query, cat.service for a query by service type and name
get_session_endpoint(c, a, ks, n, service_key, cat) ==
    LET override_endpoint == get_endpoint(c, service_key).value
    IN  IF Truthy(override_endpoint) THEN Step(Return(override_endpoint), ks, n)
        ELSE The({IF Failed(g) THEN g
                  ELSE IF service_key = PyStr(S_identity)
                  THEN Step(After(g, cat.auth), g.ks, g.n)
                  ELSE Step(After(g, cat.service), g.ks, g.n) :
                  g \in {get_session(c, a, ks, n)}})

\* glanceclient.common.utils.strip_version: the endpoint without its version
strip_version(endpoint) ==
    IF Tag(endpoint) # "str" THEN Raise("ValueError")
    ELSE IF EndsWith(endpoint[2], S_slash_v2)
    THEN Return(PyStr(SubSeq(endpoint[2], 1, Len(endpoint[2]) - Len(S_slash_v2))))
    ELSE Return(endpoint)

\* client_class(*args, **kwargs) and what it was called with
Client(args, kwargs) == <<"Client", args, kwargs>>

\* d[k] = v and d.update(e)
DictSet(d, k, v) == [x \in DOMAIN d \cup {k} |-> IF x = k THEN v ELSE d[x]]
DictUpdate(d, e) == [x \in DOMAIN d \cup DOMAIN e |-> IF x \in DOMAIN e THEN e[x] ELSE d[x]]

\* lines 271-280: the constructor call of _get_swift_client
SwiftClient(c, rgn, token, endpoint, timeout) ==
    Client(<<>>,
           [preauthurl |-> endpoint,
            preauthtoken |-> token,
            auth_version |-> get_api_version(c, PyStr(S_identity)).value,
            os_options |-> [auth_token |-> token,
                            object_storage_url |-> endpoint,
                            region_name |-> get_region_name(c, rgn, None).value],
            timeout |-> timeout])

get_swift_client(c, a, ks, n, rgn, cat) ==
    The({IF Failed(g) THEN g
         ELSE The({IF Failed(e) THEN Step(After(g, e.out), e.ks, e.n)
                   ELSE IF ~Truthy(e.out.value)
                   THEN Step(After(g, Return(None)), e.ks, e.n)
                   ELSE The({IF timeout.kind = "raise"
                             THEN Step(After(g, timeout), e.ks, e.n)
                             ELSE Step(After(g, Return(SwiftClient(c, rgn, PyStr(S_token),
                                                  e.out.value, timeout.value))),
                                       e.ks, e.n) :
                             timeout \in {GetAttr(c, S_api_timeout)}}) :
                   e \in {get_session_endpoint(c, a, g.ks, g.n,
                                               PyStr(S_object_store), cat)}}) :
         g \in {get_session(c, a, ks, n)}})

\* a faulty rewrite: '2' becomes '2.0' for every service
VersionOf_every_service(c, service_key) ==
    LET version == get_api_version(c, service_key).value
    IN  IF version = PyStr(S_2) THEN PyStr(S_2_0) ELSE version

\* lines 251-255: the version passed to the constructor
VersionOf(c, service_key) ==
    LET version == get_api_version(c, service_key).value
    IN  IF service_key = PyStr(S_network) /\ version = PyStr(S_2)
        THEN PyStr(S_2_0) ELSE version

\* lines 227-231: the keyword the interface is passed under
InterfaceKey(service_key, interface_key) ==
    IF Truthy(interface_key) THEN interface_key[2]
    ELSE IF service_key = PyStr(S_image) THEN S_interface
    ELSE S_endpoint_type

\* lines 233-248: the keyword arguments before the version is looked at;
\* endpoint is the image endpoint with its version stripped
ConstructorKwargs(c, rgn, service_key, interface_key, kwargs, session, endpoint) ==
    LET base == (S_session :> session)
                @@ (S_service_name :> get_service_name(c, service_key).value)
                @@ (S_service_type :> get_service_type(c, service_key).value)
                @@ (S_region_name :> rgn)
        withEndpoint == IF service_key = PyStr(S_image)
                        THEN DictSet(base, S_endpoint, endpoint) ELSE base
    IN  DictSet(DictUpdate(withEndpoint, kwargs),
                InterfaceKey(service_key, interface_key),
                get_interface(c, service_key).value)

\* lines 233-263, once the endpoint is resolved (e) and the session is at hand
\* (g): assemble the kwargs, the positional version, and call the constructor
Construct(c, a, rgn, service_key, interface_key, pass_version_arg, kwargs, cat, e, g) ==
    The({IF service_key = PyStr(S_image) /\ stripped.kind = "raise"
         THEN Step(After(g, After(e, stripped)), g.ks, g.n)
         ELSE The({IF ~pass_version_arg
                   THEN Step(After(g, After(e, Return(Client(<<>>, kw)))), g.ks, g.n)
                   ELSE IF service_key = PyStr(S_identity) /\ S_endpoint \notin DOMAIN kw
                   THEN The({IF Failed(i) THEN Step(After(g, After(e, i.out)), i.ks, i.n)
                             ELSE Step(After(g, After(e, Return(Client(
                                          <<VersionOf(c, service_key)>>,
                                          DictSet(kw, S_endpoint, i.out.value))))),
                                       i.ks, i.n) :
                             i \in {get_session_endpoint(c, a, g.ks, g.n,
                                                         PyStr(S_identity), cat)}})
                   ELSE Step(After(g, After(e, Return(Client(
                                <<VersionOf(c, service_key)>>, kw)))), g.ks, g.n) :
                   kw \in {ConstructorKwargs(c, rgn, service_key, interface_key, kwargs,
                                             g.out.value, stripped.value)}}) :
         stripped \in {IF service_key = PyStr(S_image) THEN strip_version(e.out.value)
                       ELSE Return(None)}})

get_legacy_client(c, a, ks, n, rgn, service_key, interface_key, pass_version_arg, kwargs, cat) ==
    IF service_key = PyStr(S_object_store)
    THEN get_swift_client(c, a, ks, n, rgn, cat)
    ELSE The({IF Failed(e) THEN e
              ELSE The({IF Failed(g) THEN Step(After(e, g.out), g.ks, g.n)
                        ELSE Construct(c, a, rgn, service_key, interface_key,
                                       pass_version_arg, kwargs, cat, e, g) :
                        g \in {get_session(c, a, e.ks, e.n)}}) :
              e \in {get_session_endpoint(c, a, ks, n, service_key, cat)}})

(***************************************************************************)
(* SpecSession: one caller using one CloudConfig, call after call, and     *)
(* changing entries of its config in between.                              *)
(***************************************************************************)
TlsConfigs ==
    {EmptyDict,
     (S_verify :> PyBool(TRUE)) @@ (S_cacert :> None) @@ (S_api_timeout :> None),
     (S_verify :> PyBool(FALSE)) @@ (S_cacert :> PyStr(S_ca_pem))
        @@ (S_cert :> PyStr(S_crt)) @@ (S_key :> PyStr(S_pem))
        @@ (S_api_timeout :> PyInt(<<"5">>))}

VersionConfigs ==
    {EmptyDict,
     (S_network_api_version :> PyStr(S_2)),
     (S_network_api_version :> PyStr(S_2_0)),
     (S_compute_api_version :> PyStr(S_2))}

EndpointConfigs == {EmptyDict, (S_compute_endpoint :> PyStr(S_url_v2))}

SessionConfigs ==
    {t @@ v @@ e : t \in TlsConfigs, v \in VersionConfigs, e \in EndpointConfigs}

\* the entries a caller changes between calls
Changes ==
    {<<S_verify, PyBool(FALSE)>>, <<S_cacert, PyStr(S_ca_pem)>>,
     <<S_api_timeout, PyInt(<<"5">>)>>}

ServiceKeys == {PyStr(S_compute), PyStr(S_network), PyStr(S_identity),
                PyStr(S_image), PyStr(S_object_store)}

\* what the catalog answers to an endpoint query
Catalogs ==
    [auth : {Return(PyStr(S_url))},
     service : {Return(None), Return(PyStr(S_url_v2)), Raise("EndpointNotFound")}]

CallerKwargs == {EmptyDict, (S_endpoint :> PyStr(S_url))}
InterfaceKeyArgs == {None, PyStr(S_interface)}

InitSession ==
    /\ Constructed
    /\ region = TheRegion
    /\ openstack_config = None
    /\ auth \in {None, TheAuth}
    /\ config \in SessionConfigs

\* a call that may set _keystone_session
Acquire(op, args, r) ==
    /\ r.n <= MaxSessions
    /\ ret' = Call(op, args, r.out)
    /\ keystone_session' = r.ks
    /\ sessions' = r.n
    /\ UNCHANGED <<config, region, auth, openstack_config, pc, local>>

Do_get_session ==
    \E r \in {get_session(config, auth, keystone_session, sessions)} :
        Acquire("get_session", <<>>, r)

Do_get_session_endpoint ==
    \E s \in ServiceKeys, cat \in Catalogs :
        \E r \in {get_session_endpoint(config, auth, keystone_session, sessions,
                                        s, cat)} :
            Acquire("get_session_endpoint", <<s>>, r)

Do_get_legacy_client ==
    \E s \in ServiceKeys, interface_key \in InterfaceKeyArgs,
       pass_version_arg \in BOOLEAN, kwargs \in CallerKwargs, cat \in Catalogs :
        \* the inputs that differ from the defaults are tried where they matter
        /\ kwargs # EmptyDict => s = PyStr(S_identity)
        /\ interface_key # None => s = PyStr(S_compute) /\ pass_version_arg
        /\ \E r \in {get_legacy_client(config, auth, keystone_session, sessions,
                                        region, s, interface_key, pass_version_arg,
                                        kwargs, cat)} :
              Acquire("get_legacy_client", <<s, PyBool(pass_version_arg)>>, r)

Do_get_swift_client ==
    \E cat \in Catalogs :
        \E r \in {get_swift_client(config, auth, keystone_session, sessions, region,
                                    cat)} :
            Acquire("_get_swift_client", <<>>, r)

\* the caller assigns an entry of the public config mapping
ChangeConfig ==
    \E ch \in Changes :
        /\ config' = DictSet(config, ch[1], ch[2])
        /\ ret' = Call("config[k] = v", <<PyStr(ch[1]), ch[2]>>, Return(None))
        /\ UNCHANGED <<region, auth, openstack_config, keystone_session, sessions,
                       pc, local>>

NextSession ==
    \/ Do_get_session
    \/ Do_get_session_endpoint
    \/ Do_get_legacy_client
    \/ Do_get_swift_client
    \/ ChangeConfig

SpecSession == InitSession /\ [][NextSession]_vars

(***************************************************************************)
(* Properties of the session, under SpecSession.                           *)
(***************************************************************************)
\* C2: in a sequential run, once _keystone_session holds a Session it never
\* changes again: no later call constructs a Session, and every later
\* get_session returns that same Session, whatever was changed in config.
C2_SessionNeverChanges ==
    [][keystone_session # None
         => /\ keystone_session' = keystone_session
            /\ sessions' = sessions
            /\ ret'.op = "get_session" => ret'.out = Return(keystone_session)]_vars

\* get_session returned the memoized Session although api_timeout and verify
\* are no longer what the Session was built with
C2_Witness ==
    /\ IsCall("get_session")
    /\ ret.out = Return(keystone_session)
    /\ keystone_session # None
    /\ Has(S_api_timeout) /\ keystone_session[6] # config[S_api_timeout]
    /\ Has(S_verify) /\ keystone_session[4] # config[S_verify]

ConfigurationError == Raise("OpenStackConfigException")

\* C3: with no auth plugin bound, every get_session raises the configuration
\* error and _keystone_session stays None (so that a later call tries again),
\* and get_session_endpoint for a service with no endpoint override raises
\* the same error.
C3_NoAuthAlwaysRaises ==
    auth = None
       => /\ keystone_session = None
          /\ sessions = 0
          /\ IsCall("get_session") => ret.out = ConfigurationError
          /\ (IsCall("get_session_endpoint")
                /\ ~(Has(Arg1[2] \o S__endpoint) /\ Truthy(config[Arg1[2] \o S__endpoint])))
                => ret.out = ConfigurationError

\* without auth, the endpoint of a service with no override was asked for
C3_Witness ==
    /\ auth = None
    /\ IsCall("get_session_endpoint")
    /\ Arg1 = PyStr(S_network)
    /\ ret.out = ConfigurationError
    /\ keystone_session = None

\* C10: for a service other than object-store, get_legacy_client passes one
\* positional argument when pass_version_arg is true and none when it is
\* false; the argument is get_api_version(service_key), except that '2' is
\* passed as '2.0' for 'network', and only for 'network'.
ConfiguredVersion(s) ==
    IF Has(s \o S__api_version) THEN config[s \o S__api_version] ELSE None
Frame(session, out) == [session |-> session, out |-> out]

InitThreads ==
    /\ region = TheRegion
    /\ openstack_config = None
    /\ auth \in {None, TheAuth}
    /\ config \in TlsConfigs
    /\ keystone_session = None
    /\ sessions = 0
    /\ ret = NoCall
    /\ pc = [t \in Threads |-> "idle"]
    /\ local = [t \in Threads |-> Frame(None, Return(None))]

Goto(t, label) == pc' = [pc EXCEPT ![t] = label]

\* line 133: if self._keystone_session is None
T_check(t) ==
    /\ pc[t] = "idle"
    /\ Goto(t, IF keystone_session = None THEN "build" ELSE "load")
    /\ local' = [local EXCEPT ![t] = Frame(None, Return(None))]
    /\ UNCHANGED <<config, region, auth, openstack_config, keystone_session,
                   sessions, ret>>

\* lines 134-151: raise, or construct the Session (not yet stored)
T_build(t) ==
    /\ pc[t] = "build"
    /\ sessions < MaxSessions
    /\ \E r \in {get_session(config, auth, None, sessions)} :
          /\ sessions' = r.n
          /\ IF Failed(r)
             THEN /\ Goto(t, "done")
                  /\ local' = [local EXCEPT ![t] = Frame(None, r.out)]
             ELSE /\ Goto(t, "store")
                  /\ local' = [local EXCEPT ![t] = Frame(r.ks, r.out)]
    /\ UNCHANGED <<config, region, auth, openstack_config, keystone_session, ret>>

\* line 147: self._keystone_session = <the Session>
T_store(t) ==
    /\ pc[t] = "store"
    /\ keystone_session' = local[t].session
    /\ Goto(t, "load")
    /\ UNCHANGED <<config, region, auth, openstack_config, sessions, ret, local>>

\* line 152: return self._keystone_session
T_load(t) ==
    /\ pc[t] = "load"
    /\ local' = [local EXCEPT ![t].out = Return(keystone_session)]
    /\ Goto(t, "done")
    /\ UNCHANGED <<config, region, auth, openstack_config, keystone_session,
                   sessions, ret>>

\* the caller calls get_session again
T_again(t) ==
    /\ pc[t] = "done"
    /\ Goto(t, "idle")
    /\ UNCHANGED <<config, region, auth, openstack_config, keystone_session,
                   sessions, ret, local>>

NextThreads ==
    \E t \in Threads :
        T_check(t) \/ T_build(t) \/ T_store(t) \/ T_load(t) \/ T_again(t)

SpecThreads == InitThreads /\ [][NextThreads]_vars

\* C1: with an auth plugin bound, concurrent callers of get_session construct
\* at most one Session between them and are all returned the same Session,
\* for every interleaving of their tests of and stores to _keystone_session.
Returned(t) == pc[t] = "done" /\ local[t].out.kind = "return"
C1_OneSessionForAll ==
    auth # None
       => /\ sessions <= 1
          /\ \A t \in Threads, u \in Threads :
                (Returned(t) /\ Returned(u)) => local[t].out = local[u].out

====
